---- MODULE Spec2Model ----
(***************************************************************************)
(* Two-player game coordination of the student well-being application:     *)
(* the lobby (Games component: createRoom, joinRoom, loadAvailableRooms),  *)
(* the two game components (TicTacToe, RockPaperScissors), the game_rooms  *)
(* table with its row-level security policies, and the per-room change     *)
(* notification channel.                                                   *)
(***************************************************************************)
EXTENDS Integers, Sequences, FiniteSets, TLC

\* ------------------------------------------------------------------ bounds
MaxRooms == 2        \* rows createRoom may bring game_rooms to
MaxMoves == 6        \* moves and choices written to the table
MaxPending == 1      \* undelivered change notifications of a room when a move is issued

\* --------------------------------------------------------------- constants
PageSize == 10       \* .limit(10) of loadAvailableRooms

Null == "null"
Users == {"A", "B", "C"}
GameTypes == {"tic_tac_toe", "rock_paper_scissors"}
choices == {"rock", "paper", "scissors"}
Cells == 0..8
ClickCells == {0, 1, 2, 3, 4, 5}   \* the cells the model clicks (two rows of the board)

\* game_state jsonb: '{}' is the record with every key absent (Null).
\* An absent "board" key is the empty tuple; the other absent keys are Null.
NoBoard == << >>
EmptyBoard == [i \in Cells |-> Null]
EmptyGameState ==
  [board |-> NoBoard, currentTurn |-> Null, player1Choice |-> Null, player2Choice |-> Null]

\* null of type GameRoom (activeGame, an unmounted component): the row with id 0.
NoRoom ==
  [id |-> 0, game_type |-> Null, player1_id |-> Null, player2_id |-> Null,
   game_state |-> EmptyGameState, status |-> Null, winner_id |-> Null,
   created_at |-> 0, completed_at |-> Null]

VARIABLES
  game_rooms,        \* the table: sequence of rows, a row's id is its index
  availableRooms,    \* Games: per user, the room list last loaded
  activeGame,        \* Games: per user, the row snapshot handed to the game component
  selectedGameType,  \* Games: per user
  gameState,         \* game component: per user, the row last seen
  board,             \* TicTacToe: per user
  currentTurn,       \* TicTacToe: per user
  winner,            \* TicTacToe: per user, Null | "you" | "opponent"
  myChoice,          \* RockPaperScissors: per user
  result,            \* RockPaperScissors: per user, Null | "win" | "lose" | "draw"
  inbox,             \* per user, UPDATE payloads of the subscribed room not yet handled
  user_activity_stats, \* the statistics table: sequence of rows, a row's id is its index
  moves,             \* history: the number of moves and choices written so far
  joinLog,           \* history: the joinRoom calls made, each with its outcome
  statsCalls,        \* per user, the updateStats calls in flight (SpecStats)
  sports_events,     \* the table: sequence of rows, a row's id is its index
  sports_event_participants, \* the table: set of rows
  events,            \* SportsEvents: per user, the event list last loaded
  participants       \* SportsEvents: per user, the participant rows last loaded

vars == <<game_rooms, availableRooms, activeGame, selectedGameType, gameState,
          board, currentTurn, winner, myChoice, result, inbox, user_activity_stats,
          moves, joinLog, statsCalls, sports_events, sports_event_participants,
          events, participants>>

lobbyVars == <<availableRooms, activeGame, selectedGameType>>
componentVars == <<gameState, board, currentTurn, winner, myChoice, result>>
sportsVars == <<sports_events, sports_event_participants, events, participants>>
\* what the Games page and its components never touch
otherVars == <<statsCalls, sportsVars>>

\* ------------------------------------------------------------- the table
\* Mutant: the insert names a status of its own instead of 'waiting'.
NewRoomStarted(id, gameType, uid) ==
  [id |-> id, game_type |-> gameType, player1_id |-> uid, player2_id |-> Null,
   game_state |-> EmptyGameState, status |-> "in_progress", winner_id |-> Null,
   created_at |-> id, completed_at |-> Null]

\* INSERT of createRoom with the column defaults of CREATE TABLE game_rooms.
NewRoom(id, gameType, uid) ==
  [id |-> id, game_type |-> gameType, player1_id |-> uid, player2_id |-> Null,
   game_state |-> EmptyGameState, status |-> "waiting", winner_id |-> Null,
   created_at |-> id, completed_at |-> Null]

\* Policy "Users can create game rooms": WITH CHECK (auth.uid() = player1_id).
InsertPolicy(uid, row) == uid = row.player1_id

\* Mutant: the update policy admits every authenticated user.
UpdatePolicyAuthenticated(uid, row) == uid \in Users

\* Policy "Players can update their game rooms": the same expression is the
\* USING clause (old row) and the WITH CHECK clause (new row). A NULL
\* player2_id makes its comparison unknown, which does not admit the row.
UpdatePolicy(uid, row) ==
  \/ uid = row.player1_id
  \/ (row.player2_id # Null /\ uid = row.player2_id)

\* UPDATE ... SET <upd>: the named columns are replaced, the others kept.
Merge(row, upd) ==
  [f \in DOMAIN row |-> IF f \in DOMAIN upd THEN upd[f] ELSE row[f]]

\* Does an UPDATE by uid of row id, with the optional filter player2_id = null,
\* affect the row?
Affects(rooms, uid, id, p2null, upd) ==
  /\ id \in DOMAIN rooms
  /\ (p2null => rooms[id].player2_id = Null)
  /\ UpdatePolicy(uid, rooms[id])
  /\ UpdatePolicy(uid, Merge(rooms[id], upd))

UpdateRoom(rooms, uid, id, p2null, upd) ==
  IF Affects(rooms, uid, id, p2null, upd)
  THEN [rooms EXCEPT ![id] = Merge(@, upd)]
  ELSE rooms

\* --------------------------------------------------------- sequence helpers
RECURSIVE SelectSeqRev(_, _)
\* the rows of s that satisfy the open-room filter, last row first
SelectSeqRev(s, n) ==
  IF n = 0 THEN << >>
  ELSE IF s[n].status = "waiting" /\ s[n].player2_id = Null
       THEN <<s[n]>> \o SelectSeqRev(s, n - 1)
       ELSE SelectSeqRev(s, n - 1)

Take(s, n) == IF Len(s) <= n THEN s ELSE SubSeq(s, 1, n)

\* Mutant: the query without its .limit().
OpenRoomsUnlimited(rooms) == SelectSeqRev(rooms, Len(rooms))

\* loadAvailableRooms: status = 'waiting', player2_id is null, newest first, limit.
OpenRooms(rooms) == Take(SelectSeqRev(rooms, Len(rooms)), PageSize)

\* ------------------------------------------------------ component mounting
\* A game component is rendered while activeGame and selectedGameType are set
\* (Games, render). Mounting runs the useState initialisers and the mount effect.
Mounted(u) == activeGame[u].id # 0 /\ selectedGameType[u] # Null
Subscribers(id) == {v \in Users : Mounted(v) /\ activeGame[v].id = id}

MountBoard(gameType, room) ==
  IF gameType = "tic_tac_toe" /\ room.game_state.board # NoBoard
  THEN room.game_state.board ELSE EmptyBoard

MountTurn(gameType, room) ==
  IF gameType = "tic_tac_toe" /\ room.game_state.board # NoBoard
     /\ room.game_state.currentTurn # Null
  THEN room.game_state.currentTurn ELSE "X"

MountChoice(gameType, room, uid) ==
  IF gameType # "rock_paper_scissors" THEN Null
  ELSE IF uid = room.player1_id THEN room.game_state.player1Choice
       ELSE room.game_state.player2Choice

Mount(u, gameType, room) ==
  /\ gameState' = [gameState EXCEPT ![u] = room]
  /\ board' = [board EXCEPT ![u] = MountBoard(gameType, room)]
  /\ currentTurn' = [currentTurn EXCEPT ![u] = MountTurn(gameType, room)]
  /\ winner' = [winner EXCEPT ![u] = Null]
  /\ myChoice' = [myChoice EXCEPT ![u] = MountChoice(gameType, room, u)]
  /\ result' = [result EXCEPT ![u] = Null]

\* UPDATE events of row id reach every subscribed component, in commit order.
Publish(box, id, row) ==
  [v \in Users |-> IF v \in Subscribers(id) THEN Append(box[v], row) ELSE box[v]]

RECURSIVE SumLen(_, _)
SumLen(box, S) ==
  IF S = {} THEN 0
  ELSE LET v == CHOOSE x \in S : TRUE IN Len(box[v]) + SumLen(box, S \ {v})

\* A move is issued while at most MaxPending events of the room are undelivered.
InboxRoom(id) ==
  /\ moves < MaxMoves
  /\ SumLen(inbox, Subscribers(id)) <= MaxPending

\* ------------------------------------------------------------------ Games
\* loadAvailableRooms
LoadAvailableRooms(u) ==
  /\ availableRooms' = [availableRooms EXCEPT ![u] = OpenRooms(game_rooms)]
  /\ UNCHANGED <<game_rooms, activeGame, selectedGameType, componentVars, inbox,
                 user_activity_stats, moves, joinLog, otherVars>>

\* createRoom(gameType): offered while no game is active.
CreateRoom(u, gameType) ==
  LET id == Len(game_rooms) + 1
      data == NewRoom(id, gameType, u)
  IN /\ activeGame[u].id = 0
     /\ Len(game_rooms) < MaxRooms
     /\ InsertPolicy(u, data)
     /\ game_rooms' = Append(game_rooms, data)
     /\ activeGame' = [activeGame EXCEPT ![u] = data]
     /\ selectedGameType' = [selectedGameType EXCEPT ![u] = gameType]
     /\ Mount(u, gameType, data)
     /\ inbox' = [inbox EXCEPT ![u] = << >>]
     /\ UNCHANGED <<availableRooms, user_activity_stats, moves, joinLog, otherVars>>

\* The columns joinRoom's update sets.
JoinUpdates(u) == [player2_id |-> u, status |-> "in_progress"]

\* Mutant: joinRoom without its own-room check.
JoinOutcomeAnyRoom(u, room) ==
  IF room.player2_id # Null THEN "full"
  ELSE IF Affects(game_rooms, u, room.id, TRUE, JoinUpdates(u)) THEN "joined"
  ELSE "error"

\* joinRoom(room): which way the call goes for the listed (possibly stale) room.
JoinOutcome(u, room) ==
  IF room.player1_id = u THEN "own"
  ELSE IF room.player2_id # Null THEN "full"
  ELSE IF Affects(game_rooms, u, room.id, TRUE, JoinUpdates(u)) THEN "joined"
  ELSE "error"

\* Mutant: the error branch returns without reloading the list.
JoinReloadsFullOnly(outcome) == outcome = "full"

\* Does joinRoom re-run loadAvailableRooms on this outcome?
JoinReloads(outcome) == outcome \in {"full", "error"}

\* joinRoom(room), room being entry i of the caller's list.
JoinRoom(u, i) ==
  /\ activeGame[u].id = 0
  /\ i \in DOMAIN availableRooms[u]
  /\ LET room == availableRooms[u][i]
         outcome == JoinOutcome(u, room)
         rooms2 == IF outcome \in {"joined", "error"}
                   THEN UpdateRoom(game_rooms, u, room.id, TRUE, JoinUpdates(u))
                   ELSE game_rooms
         data == rooms2[room.id]
     IN /\ game_rooms' = rooms2
        /\ availableRooms' =
             [availableRooms EXCEPT ![u] = IF JoinReloads(outcome) THEN OpenRooms(rooms2) ELSE @]
        /\ IF outcome = "joined"
           THEN /\ activeGame' = [activeGame EXCEPT ![u] = data]
                /\ selectedGameType' = [selectedGameType EXCEPT ![u] = room.game_type]
                /\ Mount(u, room.game_type, data)
                /\ inbox' = [Publish(inbox, room.id, data) EXCEPT ![u] = << >>]
           ELSE UNCHANGED <<activeGame, selectedGameType, componentVars, inbox>>
        /\ joinLog' = joinLog \cup {[user |-> u, room |-> room.id, outcome |-> outcome]}
        /\ UNCHANGED <<user_activity_stats, moves, otherVars>>

\* handleGameComplete: the "Quitter la partie" button and the components' onComplete.
HandleGameComplete(u) ==
  /\ Mounted(u)
  /\ activeGame' = [activeGame EXCEPT ![u] = NoRoom]
  /\ selectedGameType' = [selectedGameType EXCEPT ![u] = Null]
  /\ availableRooms' = [availableRooms EXCEPT ![u] = OpenRooms(game_rooms)]
  /\ gameState' = [gameState EXCEPT ![u] = NoRoom]
  /\ board' = [board EXCEPT ![u] = EmptyBoard]
  /\ currentTurn' = [currentTurn EXCEPT ![u] = "X"]
  /\ winner' = [winner EXCEPT ![u] = Null]
  /\ myChoice' = [myChoice EXCEPT ![u] = Null]
  /\ result' = [result EXCEPT ![u] = Null]
  /\ inbox' = [inbox EXCEPT ![u] = << >>]
  /\ UNCHANGED <<game_rooms, user_activity_stats, moves, joinLog, otherVars>>

\* ------------------------------------------------------ user_activity_stats
\* Trigger trigger_initialize_stats: every profile has its statistics row, with
\* the column defaults, from the moment the profile is inserted.
InitialStats ==
  LET profiles == <<"A", "B", "C">>
  IN [id \in DOMAIN profiles |->
        [id |-> id, user_id |-> profiles[id], games_played |-> 0, games_won |-> 0]]

\* select('games_played, games_won').eq('user_id', uid).maybeSingle()
SelectStats(table, uid) ==
  IF \E k \in DOMAIN table : table[k].user_id = uid
  THEN table[CHOOSE k \in DOMAIN table : table[k].user_id = uid]
  ELSE [id |-> 0, user_id |-> uid, games_played |-> 0, games_won |-> 0]

\* upsert(row) without onConflict: INSERT ... ON CONFLICT (id) DO UPDATE. The row
\* carries no id, so its id is a fresh default and never conflicts; the insert
\* then meets UNIQUE (user_id): with a row of that user in the table the
\* statement fails and the table is left as it is.
Upsert(table, row) ==
  IF \E k \in DOMAIN table : table[k].user_id = row.user_id
  THEN table
  ELSE Append(table, [row EXCEPT !.id = Len(table) + 1])

\* Mutant: the row to upsert counts the win and not the game.
NewStatsWonOnly(table, uid, won) ==
  LET currentStats == SelectStats(table, uid)
  IN [id |-> 0, user_id |-> uid,
      games_played |-> currentStats.games_played,
      games_won |-> currentStats.games_won + (IF won THEN 1 ELSE 0)]

\* updateStats(won), its first half: the select of the caller's counters and the
\* row built from them.
NewStats(table, uid, won) ==
  LET currentStats == SelectStats(table, uid)
  IN [id |-> 0, user_id |-> uid,
      games_played |-> currentStats.games_played + 1,
      games_won |-> currentStats.games_won + (IF won THEN 1 ELSE 0)]

\* updateStats(won), the same function in both game components. Its select and
\* its upsert touch the caller's row only.
updateStats(table, uid, won) == Upsert(table, NewStats(table, uid, won))

\* ------------------------------------------------------------- TicTacToe
isPlayer1(u) == u = activeGame[u].player1_id
mySymbol(u) == IF isPlayer1(u) THEN "X" ELSE "O"

\* Mutant: checkWinner without its last line.
linesWithoutLast ==
  << <<0, 1, 2>>, <<3, 4, 5>>, <<6, 7, 8>>,
     <<0, 3, 6>>, <<1, 4, 7>>, <<2, 5, 8>>,
     <<0, 4, 8>> >>

lines ==
  << <<0, 1, 2>>, <<3, 4, 5>>, <<6, 7, 8>>,
     <<0, 3, 6>>, <<1, 4, 7>>, <<2, 5, 8>>,
     <<0, 4, 8>>, <<2, 4, 6>> >>

LineWon(squares, l) ==
  /\ squares[l[1]] # Null
  /\ squares[l[1]] = squares[l[2]]
  /\ squares[l[1]] = squares[l[3]]

\* checkWinner: the symbol of the first complete line in the order of `lines`.
checkWinner(squares) ==
  IF \E k \in DOMAIN lines : LineWon(squares, lines[k])
  THEN LET k == CHOOSE j \in DOMAIN lines :
                  /\ LineWon(squares, lines[j])
                  /\ \A m \in 1..(j - 1) : ~LineWon(squares, lines[m])
       IN squares[lines[k][1]]
  ELSE Null

\* The three early returns of handleClick.
ClickRejected(u, index) ==
  \/ board[u][index] # Null
  \/ winner[u] # Null
  \/ (currentTurn[u] = "X" /\ ~isPlayer1(u))
  \/ (currentTurn[u] = "O" /\ isPlayer1(u))
  \/ gameState[u].status # "in_progress"

\* Mutant: a move that does not end the game writes the status of the
\* component's gameRoom prop back.
ClickUpdatesPropStatus(u, index) ==
  LET newBoard == [board[u] EXCEPT ![index] = currentTurn[u]]
      winningSymbol == checkWinner(newBoard)
      isDraw == winningSymbol = Null /\ \A c \in Cells : newBoard[c] # Null
      newTurn == IF currentTurn[u] = "X" THEN "O" ELSE "X"
      gs == [board |-> newBoard, currentTurn |-> newTurn,
             player1Choice |-> Null, player2Choice |-> Null]
  IN IF winningSymbol # Null
     THEN [game_state |-> gs, status |-> "completed",
           winner_id |-> IF winningSymbol = "X" THEN activeGame[u].player1_id
                         ELSE activeGame[u].player2_id,
           completed_at |-> "set"]
     ELSE IF isDraw
     THEN [game_state |-> gs, status |-> "completed", completed_at |-> "set"]
     ELSE [game_state |-> gs, status |-> activeGame[u].status]

\* Mutant: a move writes the player2_id of the component's gameRoom prop back.
ClickUpdatesPropPlayer2(u, index) ==
  LET newBoard == [board[u] EXCEPT ![index] = currentTurn[u]]
      newTurn == IF currentTurn[u] = "X" THEN "O" ELSE "X"
      gs == [board |-> newBoard, currentTurn |-> newTurn,
             player1Choice |-> Null, player2Choice |-> Null]
  IN [game_state |-> gs, player2_id |-> activeGame[u].player2_id]

\* Mutant: a move that leaves currentTurn as it was.
ClickUpdatesSameTurn(u, index) ==
  LET newBoard == [board[u] EXCEPT ![index] = currentTurn[u]]
      gs == [board |-> newBoard, currentTurn |-> currentTurn[u],
             player1Choice |-> Null, player2Choice |-> Null]
  IN [game_state |-> gs]

\* Mutant: a move that never records an outcome.
ClickUpdatesNoOutcome(u, index) ==
  LET newBoard == [board[u] EXCEPT ![index] = currentTurn[u]]
      newTurn == IF currentTurn[u] = "X" THEN "O" ELSE "X"
      gs == [board |-> newBoard, currentTurn |-> newTurn,
             player1Choice |-> Null, player2Choice |-> Null]
  IN [game_state |-> gs]

\* The `updates` object handleClick builds from the component's state.
ClickUpdates(u, index) ==
  LET newBoard == [board[u] EXCEPT ![index] = currentTurn[u]]
      winningSymbol == checkWinner(newBoard)
      isDraw == winningSymbol = Null /\ \A c \in Cells : newBoard[c] # Null
      newTurn == IF currentTurn[u] = "X" THEN "O" ELSE "X"
      gs == [board |-> newBoard, currentTurn |-> newTurn,
             player1Choice |-> Null, player2Choice |-> Null]
  IN IF winningSymbol # Null
     THEN [game_state |-> gs, status |-> "completed",
           winner_id |-> IF winningSymbol = "X" THEN activeGame[u].player1_id
                         ELSE activeGame[u].player2_id,
           completed_at |-> "set"]
     ELSE IF isDraw
     THEN [game_state |-> gs, status |-> "completed", completed_at |-> "set"]
     ELSE [game_state |-> gs]

\* A move or choice: the unfiltered update of the component's room, and the
\* UPDATE event it raises when it affects the row.
WriteRoom(u, upd) ==
  LET id == activeGame[u].id
      hit == Affects(game_rooms, u, id, FALSE, upd)
      rooms2 == UpdateRoom(game_rooms, u, id, FALSE, upd)
  IN /\ game_rooms' = rooms2
     /\ inbox' = IF hit THEN Publish(inbox, id, rooms2[id]) ELSE inbox
     /\ moves' = moves + 1

\* The component shows its controls once the row it holds has a second player.
ControlsShown(u, gameType) ==
  /\ Mounted(u)
  /\ selectedGameType[u] = gameType
  /\ gameState[u].player2_id # Null

\* handleClick(index)
HandleClick(u, index) ==
  /\ ControlsShown(u, "tic_tac_toe")
  /\ IF ClickRejected(u, index)
     THEN UNCHANGED <<game_rooms, inbox, moves>>
     ELSE /\ InboxRoom(activeGame[u].id)
          /\ WriteRoom(u, ClickUpdates(u, index))
  /\ UNCHANGED <<lobbyVars, componentVars, user_activity_stats, joinLog, otherVars>>

\* Mutant: the TicTacToe handler takes the board of the payload and leaves
\* currentTurn as it was.
TicTacToeOnUpdateBoardOnly(u) ==
  LET updated == Head(inbox[u])
  IN /\ gameState' = [gameState EXCEPT ![u] = updated]
     /\ board' = IF updated.game_state.board # NoBoard
                 THEN [board EXCEPT ![u] = updated.game_state.board]
                 ELSE board
     /\ winner' = IF updated.winner_id # Null
                  THEN [winner EXCEPT ![u] =
                          IF updated.winner_id = u THEN "you" ELSE "opponent"]
                  ELSE winner
     /\ user_activity_stats' =
          IF updated.winner_id # Null
          THEN updateStats(user_activity_stats, u, updated.winner_id = u)
          ELSE user_activity_stats
     /\ UNCHANGED <<currentTurn, myChoice, result>>

\* The state the TicTacToe handler sets from an UPDATE payload.
TicTacToeSetState(u) ==
  LET updated == Head(inbox[u])
  IN /\ gameState' = [gameState EXCEPT ![u] = updated]
     /\ IF updated.game_state.board # NoBoard
        THEN /\ board' = [board EXCEPT ![u] = updated.game_state.board]
             /\ currentTurn' = [currentTurn EXCEPT ![u] =
                   IF updated.game_state.currentTurn # Null
                   THEN updated.game_state.currentTurn ELSE "X"]
        ELSE UNCHANGED <<board, currentTurn>>
     /\ winner' = IF updated.winner_id # Null
                  THEN [winner EXCEPT ![u] =
                          IF updated.winner_id = u THEN "you" ELSE "opponent"]
                  ELSE winner
     /\ UNCHANGED <<myChoice, result>>

\* The TicTacToe handler of an UPDATE payload, its updateStats call run to its end.
TicTacToeOnUpdate(u) ==
  LET updated == Head(inbox[u])
  IN /\ TicTacToeSetState(u)
     /\ user_activity_stats' =
          IF updated.winner_id # Null
          THEN updateStats(user_activity_stats, u, updated.winner_id = u)
          ELSE user_activity_stats

\* ----------------------------------------------------- RockPaperScissors
winConditions == [rock |-> "scissors", paper |-> "rock", scissors |-> "paper"]

\* Mutant: a first choice writes the status of the component's gameRoom prop back.
ChoiceUpdatesPropStatus(u, choice) ==
  LET local == gameState[u].game_state
      gs == IF isPlayer1(u) THEN [local EXCEPT !.player1Choice = choice]
            ELSE [local EXCEPT !.player2Choice = choice]
      otherPlayerChoice == IF isPlayer1(u) THEN local.player2Choice
                           ELSE local.player1Choice
      p1Choice == IF isPlayer1(u) THEN choice ELSE otherPlayerChoice
      p2Choice == IF isPlayer1(u) THEN otherPlayerChoice ELSE choice
  IN IF otherPlayerChoice = Null
     THEN [game_state |-> gs, status |-> activeGame[u].status]
     ELSE IF p1Choice = p2Choice
     THEN [game_state |-> gs, status |-> "completed", completed_at |-> "set"]
     ELSE [game_state |-> gs, status |-> "completed", completed_at |-> "set",
           winner_id |-> IF winConditions[p1Choice] = p2Choice
                         THEN activeGame[u].player1_id
                         ELSE activeGame[u].player2_id]

\* The `updates` object makeChoice builds from the component's state.
ChoiceUpdates(u, choice) ==
  LET local == gameState[u].game_state
      gs == IF isPlayer1(u) THEN [local EXCEPT !.player1Choice = choice]
            ELSE [local EXCEPT !.player2Choice = choice]
      otherPlayerChoice == IF isPlayer1(u) THEN local.player2Choice
                           ELSE local.player1Choice
      p1Choice == IF isPlayer1(u) THEN choice ELSE otherPlayerChoice
      p2Choice == IF isPlayer1(u) THEN otherPlayerChoice ELSE choice
  IN IF otherPlayerChoice = Null THEN [game_state |-> gs]
     ELSE IF p1Choice = p2Choice
     THEN [game_state |-> gs, status |-> "completed", completed_at |-> "set"]
     ELSE [game_state |-> gs, status |-> "completed", completed_at |-> "set",
           winner_id |-> IF winConditions[p1Choice] = p2Choice
                         THEN activeGame[u].player1_id
                         ELSE activeGame[u].player2_id]

\* Mutant: makeChoice without its check of myChoice.
MakeChoiceAgain(u, choice) ==
  /\ ControlsShown(u, "rock_paper_scissors")
  /\ result[u] = Null
  /\ InboxRoom(activeGame[u].id)
  /\ myChoice' = [myChoice EXCEPT ![u] = choice]
  /\ WriteRoom(u, ChoiceUpdates(u, choice))
  /\ UNCHANGED <<lobbyVars, gameState, board, currentTurn, winner, result,
                 user_activity_stats, joinLog, otherVars>>

\* makeChoice(choice)
MakeChoice(u, choice) ==
  /\ ControlsShown(u, "rock_paper_scissors")
  /\ result[u] = Null
  /\ IF myChoice[u] # Null
     THEN UNCHANGED <<game_rooms, inbox, moves, myChoice>>
     ELSE /\ InboxRoom(activeGame[u].id)
          /\ myChoice' = [myChoice EXCEPT ![u] = choice]
          /\ WriteRoom(u, ChoiceUpdates(u, choice))
  /\ UNCHANGED <<lobbyVars, gameState, board, currentTurn, winner, result,
                 user_activity_stats, joinLog, otherVars>>

\* determineWinner(state): the result the component shows, Null when it returns early.
determineWinner(u, state) ==
  LET p1Choice == state.game_state.player1Choice
      p2Choice == state.game_state.player2Choice
      player1Wins == winConditions[p1Choice] = p2Choice
      iWon == (isPlayer1(u) /\ player1Wins) \/ (~isPlayer1(u) /\ ~player1Wins)
  IN IF p1Choice = Null \/ p2Choice = Null THEN Null
     ELSE IF p1Choice = p2Choice THEN "draw"
     ELSE IF iWon THEN "win" ELSE "lose"

\* The state the RockPaperScissors handler sets from an UPDATE payload.
RockPaperScissorsSetState(u) ==
  LET updated == Head(inbox[u])
      shown == IF updated.status = "completed" THEN determineWinner(u, updated) ELSE Null
  IN /\ gameState' = [gameState EXCEPT ![u] = updated]
     /\ result' = IF shown # Null THEN [result EXCEPT ![u] = shown] ELSE result
     /\ UNCHANGED <<board, currentTurn, winner, myChoice>>

\* The RockPaperScissors handler of an UPDATE payload, its updateStats call run
\* to its end.
RockPaperScissorsOnUpdate(u) ==
  LET updated == Head(inbox[u])
      shown == IF updated.status = "completed" THEN determineWinner(u, updated) ELSE Null
  IN /\ RockPaperScissorsSetState(u)
     /\ user_activity_stats' =
          IF shown # Null
          THEN updateStats(user_activity_stats, u, shown = "win")
          ELSE user_activity_stats

\* Delivery of the oldest pending UPDATE payload to the mounted component.
OnUpdate(u) ==
  /\ Mounted(u)
  /\ inbox[u] # << >>
  /\ IF selectedGameType[u] = "tic_tac_toe"
     THEN TicTacToeOnUpdate(u)
     ELSE RockPaperScissorsOnUpdate(u)
  /\ inbox' = [inbox EXCEPT ![u] = Tail(@)]
  /\ UNCHANGED <<game_rooms, lobbyVars, moves, joinLog, otherVars>>

\* ------------------------------------------- updateStats, step by step
\* The argument of the updateStats call the handler makes on the payload, if
\* it makes one.
StatsArgs(u) ==
  LET updated == Head(inbox[u])
      shown == IF updated.status = "completed" THEN determineWinner(u, updated) ELSE Null
  IN IF selectedGameType[u] = "tic_tac_toe"
     THEN (IF updated.winner_id # Null THEN <<updated.winner_id = u>> ELSE << >>)
     ELSE (IF shown # Null THEN <<shown = "win">> ELSE << >>)

\* A call that has not yet run its select; row is unset.
StatsCall(won) ==
  [phase |-> "select", won |-> won,
   row |-> [id |-> 0, user_id |-> Null, games_played |-> 0, games_won |-> 0]]

RemoveAt(s, i) == [j \in 1..(Len(s) - 1) |-> IF j < i THEN s[j] ELSE s[j + 1]]

\* Delivery of the oldest pending UPDATE payload: the handler sets its state
\* and starts updateStats without awaiting it.
OnUpdateCall(u) ==
  /\ Mounted(u)
  /\ inbox[u] # << >>
  /\ IF selectedGameType[u] = "tic_tac_toe"
     THEN TicTacToeSetState(u)
     ELSE RockPaperScissorsSetState(u)
  /\ statsCalls' = [statsCalls EXCEPT ![u] =
       IF StatsArgs(u) = << >> THEN @ ELSE Append(@, StatsCall(StatsArgs(u)[1]))]
  /\ inbox' = [inbox EXCEPT ![u] = Tail(@)]
  /\ UNCHANGED <<game_rooms, lobbyVars, moves, joinLog, user_activity_stats, sportsVars>>

\* updateStats: the select of call i of user u returns.
StatsSelect(u, i) ==
  /\ i \in DOMAIN statsCalls[u]
  /\ statsCalls[u][i].phase = "select"
  /\ statsCalls' = [statsCalls EXCEPT ![u][i] =
       [phase |-> "upsert", won |-> @.won,
        row |-> NewStats(user_activity_stats, u, @.won)]]
  /\ UNCHANGED <<game_rooms, lobbyVars, componentVars, inbox, user_activity_stats,
                 moves, joinLog, sportsVars>>

\* updateStats: the upsert of call i of user u is executed.
StatsUpsert(u, i) ==
  /\ i \in DOMAIN statsCalls[u]
  /\ statsCalls[u][i].phase = "upsert"
  /\ user_activity_stats' = Upsert(user_activity_stats, statsCalls[u][i].row)
  /\ statsCalls' = [statsCalls EXCEPT ![u] = RemoveAt(@, i)]
  /\ UNCHANGED <<game_rooms, lobbyVars, componentVars, inbox, moves, joinLog, sportsVars>>

\* ----------------------------------------------------------- SportsEvents
MaxEvents == 1       \* rows handleCreateEvent may bring sports_events to
MaxTeamSize == 2     \* largest team size entered in the creation form

Teams == {"team_a", "team_b"}

\* INSERT of handleCreateEvent with the column default status 'open'.
NewEvent(id, uid, sizeA, sizeB) ==
  [id |-> id, creator_id |-> uid, team_a_size |-> sizeA, team_b_size |-> sizeB,
   status |-> "open"]

\* Policy "Event creators can update their events".
EventUpdatePolicy(uid, row) == uid = row.creator_id

\* Policies "Users can join events" and "Users can leave events they joined".
ParticipantPolicy(uid, row) == uid = row.user_id

\* The number of rows of a team of an event, in a table or a loaded copy of it.
TeamCount(rows, eventId, team) ==
  Cardinality({p \in rows : p.event_id = eventId /\ p.team = team})

\* loadEvents: the events with status 'open' or 'full' (all of them lie in the
\* future), and for each the participant rows, replacing the loaded copy.
LoadedEvents(table) ==
  SelectSeq(table, LAMBDA e : e.status \in {"open", "full"})

LoadedParticipants(prev, loaded, rows) ==
  LET ids == {loaded[i].id : i \in DOMAIN loaded}
  IN {p \in prev : p.event_id \notin ids} \cup {p \in rows : p.event_id \in ids}

\* The events of the page's list, and isUserInEvent.
Listed(u, eventId) == \E i \in DOMAIN events[u] : events[u][i].id = eventId
ListedEvent(u, eventId) ==
  events[u][CHOOSE i \in DOMAIN events[u] : events[u][i].id = eventId]
isUserInEvent(u, eventId) ==
  \E p \in participants[u] : p.event_id = eventId /\ p.user_id = u

\* updateEventStatus(eventId): the status computed from the page's state, and
\* the update of the event's row, which the policy admits for the creator.
NewStatus(u, eventId) ==
  LET event == ListedEvent(u, eventId)
  IN IF /\ TeamCount(participants[u], eventId, "team_a") >= event.team_a_size
        /\ TeamCount(participants[u], eventId, "team_b") >= event.team_b_size
     THEN "full" ELSE "open"

updateEventStatus(table, u, eventId) ==
  IF /\ Listed(u, eventId)
     /\ eventId \in DOMAIN table
     /\ EventUpdatePolicy(u, table[eventId])
  THEN [table EXCEPT ![eventId].status = NewStatus(u, eventId)]
  ELSE table

\* The loadEvents call joinTeam and leaveEvent start before updateEventStatus:
\* its select of the events runs alongside the status update and sees the
\* table before or after it; its selects of the participants follow.
Reload(u) ==
  \E seen \in {sports_events, sports_events'} :
    /\ events' = [events EXCEPT ![u] = LoadedEvents(seen)]
    /\ participants' = [participants EXCEPT ![u] =
         LoadedParticipants(@, LoadedEvents(seen), sports_event_participants')]

gamesVars == <<game_rooms, availableRooms, activeGame, selectedGameType, componentVars,
               inbox, user_activity_stats, moves, joinLog, statsCalls>>

\* The mount effect: loadEvents.
LoadEvents(u) ==
  /\ events' = [events EXCEPT ![u] = LoadedEvents(sports_events)]
  /\ participants' = [participants EXCEPT ![u] =
       LoadedParticipants(@, LoadedEvents(sports_events), sports_event_participants)]
  /\ UNCHANGED <<sports_events, sports_event_participants, gamesVars>>

\* handleCreateEvent with the form's team sizes.
HandleCreateEvent(u, sizeA, sizeB) ==
  /\ Len(sports_events) < MaxEvents
  /\ sports_events' = Append(sports_events, NewEvent(Len(sports_events) + 1, u, sizeA, sizeB))
  /\ events' = [events EXCEPT ![u] = LoadedEvents(sports_events')]
  /\ participants' = [participants EXCEPT ![u] =
       LoadedParticipants(@, LoadedEvents(sports_events'), sports_event_participants)]
  /\ UNCHANGED <<sports_event_participants, gamesVars>>

\* joinTeam(eventId, team): its button is shown on a listed event the user is
\* not in, while the team's loaded count is below the team size. The insert
\* fails on UNIQUE (event_id, user_id).
JoinTeam(u, eventId, team) ==
  LET row == [event_id |-> eventId, user_id |-> u, team |-> team]
      error == \/ eventId \notin DOMAIN sports_events
               \/ ~ParticipantPolicy(u, row)
               \/ \E p \in sports_event_participants :
                    p.event_id = eventId /\ p.user_id = u
  IN /\ Listed(u, eventId)
     /\ ~isUserInEvent(u, eventId)
     /\ TeamCount(participants[u], eventId, team) <
          (IF team = "team_a" THEN ListedEvent(u, eventId).team_a_size
           ELSE ListedEvent(u, eventId).team_b_size)
     /\ IF error
        THEN UNCHANGED sportsVars
        ELSE /\ sports_event_participants' = sports_event_participants \cup {row}
             /\ sports_events' = updateEventStatus(sports_events, u, eventId)
             /\ Reload(u)
     /\ UNCHANGED gamesVars

\* leaveEvent(eventId): its button is shown on a listed event the user is in.
\* A delete that removes no row is no error.
LeaveEvent(u, eventId) ==
  /\ Listed(u, eventId)
  /\ isUserInEvent(u, eventId)
  /\ sports_event_participants' =
       {p \in sports_event_participants :
          ~(p.event_id = eventId /\ p.user_id = u /\ ParticipantPolicy(u, p))}
  /\ sports_events' = updateEventStatus(sports_events, u, eventId)
  /\ Reload(u)
  /\ UNCHANGED gamesVars

NextSports ==
  \/ \E u \in Users : LoadEvents(u)
  \/ \E u \in Users, sizeA, sizeB \in 1..MaxTeamSize : HandleCreateEvent(u, sizeA, sizeB)
  \/ \E u \in Users, eventId \in DOMAIN sports_events, team \in Teams :
       JoinTeam(u, eventId, team)
  \/ \E u \in Users, eventId \in DOMAIN sports_events : LeaveEvent(u, eventId)

\* ------------------------------------------------------------ initial state
\* No updateStats call in flight, no sports event, the SportsEvents page not loaded.
NoOther ==
  /\ statsCalls = [u \in Users |-> << >>]
  /\ sports_events = << >>
  /\ sports_event_participants = {}
  /\ events = [u \in Users |-> << >>]
  /\ participants = [u \in Users |-> {}]

Init ==
  /\ game_rooms = << >>
  /\ availableRooms = [u \in Users |-> << >>]
  /\ activeGame = [u \in Users |-> NoRoom]
  /\ selectedGameType = [u \in Users |-> Null]
  /\ gameState = [u \in Users |-> NoRoom]
  /\ board = [u \in Users |-> EmptyBoard]
  /\ currentTurn = [u \in Users |-> "X"]
  /\ winner = [u \in Users |-> Null]
  /\ myChoice = [u \in Users |-> Null]
  /\ result = [u \in Users |-> Null]
  /\ inbox = [u \in Users |-> << >>]
  /\ user_activity_stats = InitialStats
  /\ moves = 0
  /\ joinLog = {}
  /\ NoOther

\* The SportsEvents page from empty tables.
SpecSports == Init /\ [][NextSports]_vars

\* The lobby from an empty table.
Next ==
  \/ \E u \in Users : LoadAvailableRooms(u)
  \/ \E u \in Users, g \in GameTypes : CreateRoom(u, g)
  \/ \E u \in Users : \E i \in DOMAIN availableRooms[u] : JoinRoom(u, i)
  \/ \E u \in Users : HandleGameComplete(u)

Spec == Init /\ [][Next]_vars

\* ---------------------------------------------------------- rooms in play
\* The row joinRoom's update produces from the creator's row.
Claimed(room, uid) == Merge(room, JoinUpdates(uid))

\* A room of either game created by A and claimed by B, as the table, the two
\* players' components and a third user's list stand once the claim is
\* committed: A still holds the row as inserted and has the claim's UPDATE
\* event pending, B holds the claimed row, C's list predates the claim.
InitPlay ==
  \E g \in GameTypes :
    LET created == NewRoom(1, g, "A")
        claimed == Claimed(created, "B")
    IN /\ game_rooms = <<claimed>>
       /\ availableRooms = [u \in Users |-> IF u = "C" THEN <<created>> ELSE << >>]
       /\ activeGame = [u \in Users |-> IF u = "A" THEN created
                                         ELSE IF u = "B" THEN claimed ELSE NoRoom]
       /\ selectedGameType = [u \in Users |-> IF u = "C" THEN Null ELSE g]
       /\ gameState = [u \in Users |-> IF u = "A" THEN created
                                        ELSE IF u = "B" THEN claimed ELSE NoRoom]
       /\ board = [u \in Users |-> EmptyBoard]
       /\ currentTurn = [u \in Users |-> "X"]
       /\ winner = [u \in Users |-> Null]
       /\ myChoice = [u \in Users |-> Null]
       /\ result = [u \in Users |-> Null]
       /\ inbox = [u \in Users |-> IF u = "A" THEN <<claimed>> ELSE << >>]
       /\ user_activity_stats = InitialStats
       /\ moves = 0
       /\ joinLog = {[user |-> "B", room |-> 1, outcome |-> "joined"]}
       /\ NoOther

NextPlay ==
  \/ \E u \in Users : LoadAvailableRooms(u)
  \/ \E u \in Users : \E i \in DOMAIN availableRooms[u] : JoinRoom(u, i)
  \/ \E u \in Users, index \in ClickCells : HandleClick(u, index)
  \/ \E u \in Users, choice \in choices : MakeChoice(u, choice)
  \/ \E u \in Users : OnUpdate(u)

SpecPlay == InitPlay /\ [][NextPlay]_vars

\* ------------------------------------------------------ a table of many rooms
SeedRooms == 12      \* rows of the seeded table: more than a page of open rooms and a claimed one

\* A table of SeedRooms rooms created by A, any of them claimed by B, read by
\* clients that hold no game.
InitList ==
  \E claimedIds \in SUBSET (1..SeedRooms) :
    /\ game_rooms = [id \in 1..SeedRooms |->
                       IF id \in claimedIds
                       THEN Claimed(NewRoom(id, "tic_tac_toe", "A"), "B")
                       ELSE NewRoom(id, "tic_tac_toe", "A")]
    /\ availableRooms = [u \in Users |-> << >>]
    /\ activeGame = [u \in Users |-> NoRoom]
    /\ selectedGameType = [u \in Users |-> Null]
    /\ gameState = [u \in Users |-> NoRoom]
    /\ board = [u \in Users |-> EmptyBoard]
    /\ currentTurn = [u \in Users |-> "X"]
    /\ winner = [u \in Users |-> Null]
    /\ myChoice = [u \in Users |-> Null]
    /\ result = [u \in Users |-> Null]
    /\ inbox = [u \in Users |-> << >>]
    /\ user_activity_stats = InitialStats
    /\ moves = 0
    /\ joinLog = {}
    /\ NoOther

NextList == \E u \in Users : LoadAvailableRooms(u)

SpecList == InitList /\ [][NextList]_vars

\* ------------------------------------------------- Tic-Tac-Toe positions
BoardMoves == 2      \* writes followed from a seeded Tic-Tac-Toe position

Marks(b, symbol) == Cardinality({c \in Cells : b[c] = symbol})

\* The positions an alternating game starting with X passes through before it
\* ends: X has as many marks as O or one more, no line is complete, a cell is empty.
OpenPositions ==
  {b \in [Cells -> {Null, "X", "O"}] :
     /\ Marks(b, "X") - Marks(b, "O") \in {0, 1}
     /\ checkWinner(b) = Null
     /\ \E c \in Cells : b[c] = Null}

\* A Tic-Tac-Toe room of A and B at any such position, both components having
\* handled every notification; BoardMoves further writes are followed.
InitBoard ==
  \E b \in OpenPositions :
    LET created == NewRoom(1, "tic_tac_toe", "A")
        claimed == Claimed(created, "B")
        turn == IF Marks(b, "X") = Marks(b, "O") THEN "X" ELSE "O"
        row == IF Marks(b, "X") = 0 THEN claimed
               ELSE [claimed EXCEPT !.game_state =
                       [board |-> b, currentTurn |-> turn,
                        player1Choice |-> Null, player2Choice |-> Null]]
    IN /\ game_rooms = <<row>>
       /\ availableRooms = [u \in Users |-> << >>]
       /\ activeGame = [u \in Users |-> IF u = "A" THEN created
                                         ELSE IF u = "B" THEN claimed ELSE NoRoom]
       /\ selectedGameType = [u \in Users |-> IF u = "C" THEN Null ELSE "tic_tac_toe"]
       /\ gameState = [u \in Users |-> IF u = "C" THEN NoRoom ELSE row]
       /\ board = [u \in Users |-> IF u = "C" THEN EmptyBoard ELSE b]
       /\ currentTurn = [u \in Users |-> IF u = "C" THEN "X" ELSE turn]
       /\ winner = [u \in Users |-> Null]
       /\ myChoice = [u \in Users |-> Null]
       /\ result = [u \in Users |-> Null]
       /\ inbox = [u \in Users |-> << >>]
       /\ user_activity_stats = InitialStats
       /\ moves = MaxMoves - BoardMoves
       /\ joinLog = {[user |-> "B", room |-> 1, outcome |-> "joined"]}
       /\ NoOther

NextBoard ==
  \/ \E u \in Users, index \in Cells : HandleClick(u, index)
  \/ \E u \in Users : OnUpdate(u)

SpecBoard == InitBoard /\ [][NextBoard]_vars

\* ------------------------------------------------ statistics of a game's end
\* The statistics table when the profiles in `legacy` were inserted before the
\* trigger existed and so have no row.
StatsWithout(legacy) ==
  LET kept == SelectSeq(InitialStats, LAMBDA r : r.user_id \notin legacy)
  IN [k \in DOMAIN kept |-> [kept[k] EXCEPT !.id = k]]

\* Open positions of four marks within the cells the model clicks.
StatsPositions ==
  {b \in OpenPositions :
     /\ Marks(b, "X") = 2 /\ Marks(b, "O") = 2
     /\ \A c \in Cells \ ClickCells : b[c] = Null}

\* A room of A and B of either game, both components having handled every
\* notification, Tic-Tac-Toe at any of StatsPositions; A, B or both may be
\* profiles without a statistics row. BoardMoves further writes are followed.
InitStats ==
  \E g \in GameTypes, legacy \in SUBSET {"A", "B"} :
    \E b \in (IF g = "tic_tac_toe" THEN StatsPositions ELSE {EmptyBoard}) :
      LET created == NewRoom(1, g, "A")
          claimed == Claimed(created, "B")
          row == IF g = "tic_tac_toe"
                 THEN [claimed EXCEPT !.game_state =
                         [board |-> b, currentTurn |-> "X",
                          player1Choice |-> Null, player2Choice |-> Null]]
                 ELSE claimed
      IN /\ game_rooms = <<row>>
         /\ availableRooms = [u \in Users |-> << >>]
         /\ activeGame = [u \in Users |-> IF u = "A" THEN created
                                           ELSE IF u = "B" THEN claimed ELSE NoRoom]
         /\ selectedGameType = [u \in Users |-> IF u = "C" THEN Null ELSE g]
         /\ gameState = [u \in Users |-> IF u = "C" THEN NoRoom ELSE row]
         /\ board = [u \in Users |-> IF u = "C" THEN EmptyBoard ELSE b]
         /\ currentTurn = [u \in Users |-> "X"]
         /\ winner = [u \in Users |-> Null]
         /\ myChoice = [u \in Users |-> Null]
         /\ result = [u \in Users |-> Null]
         /\ inbox = [u \in Users |-> << >>]
         /\ user_activity_stats = StatsWithout(legacy)
         /\ moves = MaxMoves - BoardMoves
         /\ joinLog = {[user |-> "B", room |-> 1, outcome |-> "joined"]}
         /\ NoOther

NextStats ==
  \/ \E u \in Users, index \in ClickCells : HandleClick(u, index)
  \/ \E u \in Users, choice \in choices : MakeChoice(u, choice)
  \/ \E u \in Users : OnUpdateCall(u)
  \/ \E u \in Users : \E i \in DOMAIN statsCalls[u] : StatsSelect(u, i)
  \/ \E u \in Users : \E i \in DOMAIN statsCalls[u] : StatsUpsert(u, i)

SpecStats == InitStats /\ [][NextStats]_vars

\* ------------------------------------------------ a component of a third user
GuestMoves == 3      \* writes and write attempts followed in a room with a third user's component

\* A room of A and B of either game, the claim handled by both components, and
\* a component of C holding the same row: C is neither player1 nor player2.
InitGuest ==
  \E g \in GameTypes :
    LET created == NewRoom(1, g, "A")
        claimed == Claimed(created, "B")
    IN /\ game_rooms = <<claimed>>
       /\ availableRooms = [u \in Users |-> << >>]
       /\ activeGame = [u \in Users |-> IF u = "A" THEN created ELSE claimed]
       /\ selectedGameType = [u \in Users |-> g]
       /\ gameState = [u \in Users |-> claimed]
       /\ board = [u \in Users |-> EmptyBoard]
       /\ currentTurn = [u \in Users |-> "X"]
       /\ winner = [u \in Users |-> Null]
       /\ myChoice = [u \in Users |-> Null]
       /\ result = [u \in Users |-> Null]
       /\ inbox = [u \in Users |-> << >>]
       /\ user_activity_stats = InitialStats
       /\ moves = MaxMoves - GuestMoves
       /\ joinLog = {[user |-> "B", room |-> 1, outcome |-> "joined"]}
       /\ NoOther

NextGuest ==
  \/ \E u \in Users, index \in ClickCells : HandleClick(u, index)
  \/ \E u \in Users, choice \in choices : MakeChoice(u, choice)
  \/ \E u \in Users : OnUpdate(u)

SpecGuest == InitGuest /\ [][NextGuest]_vars

\* ===================================================================== claims
\* A joinLog entry whose call went as far as the conditional update.
IssuedUpdate(e) == e.outcome \in {"joined", "error"}

\* C1 (as claimed). Join race: when two different users have both run joinRoom's
\* conditional update on the same room and no third user claimed it, exactly one
\* of the two updates took effect and the room's player2_id is that caller.
C1_JoinRaceExactlyOne ==
  \A e1, e2 \in joinLog :
    ( /\ e1.room = e2.room
      /\ e1.user # e2.user
      /\ IssuedUpdate(e1) /\ IssuedUpdate(e2)
      /\ \A e3 \in joinLog :
           (e3.room = e1.room /\ e3.outcome = "joined") => e3.user \in {e1.user, e2.user} )
    => /\ \E w \in {e1.user, e2.user} :
            /\ [user |-> w, room |-> e1.room, outcome |-> "joined"] \in joinLog
            /\ game_rooms[e1.room].player2_id = w
       /\ ~ ( /\ [user |-> e1.user, room |-> e1.room, outcome |-> "joined"] \in joinLog
              /\ [user |-> e2.user, room |-> e1.room, outcome |-> "joined"] \in joinLog )

\* C2 (as claimed). A joinRoom by a user who is not the creator, on a room that is
\* persisted as 'waiting' with no player2, leaves the row with player2_id = the
\* joiner and status 'in_progress', and the joiner holding it as active game.
C2_UncontendedJoinSucceeds ==
  [][ \A u \in Users : \A i \in DOMAIN availableRooms[u] :
        LET room == availableRooms[u][i]
        IN ( /\ JoinRoom(u, i)
             /\ room.player1_id # u
             /\ game_rooms[room.id].status = "waiting"
             /\ game_rooms[room.id].player2_id = Null )
           => /\ game_rooms'[room.id].player2_id = u
              /\ game_rooms'[room.id].status = "in_progress"
              /\ activeGame'[u].id = room.id ]_vars

\* C3. joinRoom called by the room's creator writes nothing: the table is
\* unchanged (player2_id stays null, status stays 'waiting'), the caller's active
\* game stays unset and nothing is published to any subscriber.
C3_CreatorJoinRejected ==
  [][ \A u \in Users : \A i \in DOMAIN availableRooms[u] :
        ( JoinRoom(u, i) /\ availableRooms[u][i].player1_id = u )
        => /\ game_rooms' = game_rooms
           /\ activeGame'[u] = NoRoom
           /\ selectedGameType'[u] = Null
           /\ inbox' = inbox ]_vars

\* C3 witness: a creator has called joinRoom on their own room, and the row is
\* still waiting for a second player.
C3_Witness ==
  \E e \in joinLog :
    /\ e.outcome = "own"
    /\ game_rooms[e.room].player1_id = e.user
    /\ game_rooms[e.room].player2_id = Null
    /\ game_rooms[e.room].status = "waiting"

\* C4. Join conflict: a joinRoom on a listed room that another player has
\* already claimed leaves the table exactly as it was, leaves the caller's active
\* game unset, and reloads the caller's open-room list from the table.
C4_JoinConflict ==
  [][ \A u \in Users : \A i \in DOMAIN availableRooms[u] :
        LET room == availableRooms[u][i]
        IN ( /\ JoinRoom(u, i)
             /\ room.player1_id # u
             /\ room.player2_id = Null
             /\ game_rooms[room.id].player2_id # Null )
           => /\ game_rooms' = game_rooms
              /\ activeGame'[u] = NoRoom
              /\ selectedGameType'[u] = Null
              /\ availableRooms'[u] = OpenRooms(game_rooms')
              /\ inbox' = inbox ]_vars

\* C4 witness: C's joinRoom on the room B had already claimed has failed, and C's
\* list has been reloaded.
C4_Witness ==
  /\ [user |-> "C", room |-> 1, outcome |-> "error"] \in joinLog
  /\ game_rooms[1].player2_id = "B"
  /\ activeGame["C"] = NoRoom
  /\ availableRooms["C"] = << >>

\* C5. createRoom(gameType) by a user adds exactly one row to the table, with
\* status 'waiting', player1_id = the caller, player2_id and winner_id null and an
\* empty game_state, changes no existing row, and hands the new row to the caller
\* as active game; no other step adds or removes a row.
C5_CreateRoomInserts ==
  [][ /\ \A u \in Users, g \in GameTypes :
           CreateRoom(u, g)
           => /\ Len(game_rooms') = Len(game_rooms) + 1
              /\ \A id \in DOMAIN game_rooms : game_rooms'[id] = game_rooms[id]
              /\ LET new == game_rooms'[Len(game_rooms')]
                 IN /\ new.game_type = g
                    /\ new.player1_id = u
                    /\ new.status = "waiting"
                    /\ new.player2_id = Null
                    /\ new.winner_id = Null
                    /\ new.game_state = EmptyGameState
                    /\ activeGame'[u] = new
      /\ Len(game_rooms') # Len(game_rooms)
         => \E u \in Users, g \in GameTypes : CreateRoom(u, g) ]_vars

\* C5 witness: a second room has been created while the first is still as inserted.
C5_Witness ==
  /\ Len(game_rooms) = 2
  /\ game_rooms[1].status = "waiting"
  /\ game_rooms[2].status = "waiting"
  /\ activeGame[game_rooms[2].player1_id] = game_rooms[2]

\* C6. Every list a client loads holds only rows that are 'waiting' with no
\* player2 in the table at that time, newest first, and at most ten of them, the
\* newest ones; a claimed room is in no list loaded after the claim.
C6_OpenRoomList ==
  [][ \A u \in Users :
        availableRooms'[u] # availableRooms[u]
        => LET list == availableRooms'[u]
           IN /\ Len(list) <= 10
              /\ \A k \in DOMAIN list :
                   /\ list[k] = game_rooms'[list[k].id]
                   /\ list[k].status = "waiting"
                   /\ list[k].player2_id = Null
              /\ \A k \in 1..(Len(list) - 1) : list[k].created_at > list[k + 1].created_at
              /\ \A id \in DOMAIN game_rooms' :
                   (game_rooms'[id].player2_id # Null) =>
                      \A k \in DOMAIN list : list[k].id # id ]_vars

\* C6 witness: a client has loaded a full page from a table that holds more than
\* ten open rooms and a claimed room newer than the oldest listed one.
C6_Witness ==
  \E u \in Users :
    /\ Len(availableRooms[u]) = 10
    /\ Cardinality({id \in DOMAIN game_rooms : game_rooms[id].player2_id = Null}) > 10
    /\ \E id \in DOMAIN game_rooms :
         /\ game_rooms[id].player2_id # Null
         /\ id > availableRooms[u][10].id

\* C7. In every room, player2_id is null exactly when status is 'waiting'.
C7_Player2NullIffWaiting ==
  \A id \in DOMAIN game_rooms :
    (game_rooms[id].player2_id = Null) <=> (game_rooms[id].status = "waiting")

\* C7 witness: a claimed room has been played to its end.
C7_Witness ==
  \E id \in DOMAIN game_rooms :
    /\ game_rooms[id].player2_id # Null
    /\ game_rooms[id].status = "completed"
    /\ moves > 0

StatusRank(status) ==
  CASE status = "waiting" -> 0
    [] status = "in_progress" -> 1
    [] status = "completed" -> 2
    [] OTHER -> 3

\* C8. No step moves a room's status backwards along
\* waiting -> in_progress -> completed.
C8_StatusForward ==
  [][ \A id \in DOMAIN game_rooms :
        StatusRank(game_rooms'[id].status) >= StatusRank(game_rooms[id].status) ]_vars

\* C8 witness: a completed room has been written again by a later move and is
\* still completed.
C8_Witness ==
  \E id \in DOMAIN game_rooms :
    /\ game_rooms[id].status = "completed"
    /\ \E u \in Users :
         /\ inbox[u] # << >>
         /\ Head(inbox[u]).status = "completed"
         /\ Head(inbox[u]).game_state # game_rooms[id].game_state

\* The terminal check of a room's game on its persisted game_state is decisive.
Decisive(row) ==
  IF row.game_type = "tic_tac_toe"
  THEN row.game_state.board # NoBoard /\ checkWinner(row.game_state.board) # Null
  ELSE /\ row.game_state.player1Choice # Null
       /\ row.game_state.player2Choice # Null
       /\ row.game_state.player1Choice # row.game_state.player2Choice

\* C9 (as claimed). winner_id is non-null only if status is 'completed' and the
\* game's terminal check on the persisted game_state is decisive.
C9_WinnerOnlyIfDecisive ==
  \A id \in DOMAIN game_rooms :
    game_rooms[id].winner_id # Null =>
      (game_rooms[id].status = "completed" /\ Decisive(game_rooms[id]))

\* C10 (as claimed). No write regresses the persisted game_state: a marked cell
\* and a filled choice slot hold the same value after every step.
C10_GameStateNeverRegresses ==
  [][ \A id \in DOMAIN game_rooms :
        LET old == game_rooms[id].game_state
            new == game_rooms'[id].game_state
        IN /\ old.board # NoBoard =>
                /\ new.board # NoBoard
                /\ \A c \in Cells : old.board[c] # Null => new.board[c] = old.board[c]
           /\ old.player1Choice # Null => new.player1Choice = old.player1Choice
           /\ old.player2Choice # Null => new.player2Choice = old.player2Choice ]_vars

\* The board and the turn a Tic-Tac-Toe row holds; '{}' is the empty board
\* with X to move.
PersistedBoard(row) ==
  IF row.game_state.board = NoBoard THEN EmptyBoard ELSE row.game_state.board

PersistedTurn(row) ==
  IF row.game_state.board = NoBoard \/ row.game_state.currentTurn = Null
  THEN "X" ELSE row.game_state.currentTurn

\* C11 (as claimed). No accepted handleClick changes a cell of the persisted
\* board that is already marked.
C11_NoCellOverwritten ==
  [][ \A u \in Users, index \in Cells :
        (HandleClick(u, index) /\ ~ClickRejected(u, index))
        => LET old == PersistedBoard(game_rooms[activeGame[u].id])
               new == PersistedBoard(game_rooms'[activeGame[u].id])
           IN \A c \in Cells : old[c] # Null => new[c] = old[c] ]_vars

\* C12 (as claimed). The writes of handleClick alternate X, O, X, O, ... starting
\* with X: every accepted move is made by the player whose symbol is the turn
\* the persisted room holds, which is the symbol that did not move last.
C12_TurnAlternates ==
  [][ \A u \in Users, index \in Cells :
        (HandleClick(u, index) /\ ~ClickRejected(u, index))
        => PersistedTurn(game_rooms[activeGame[u].id]) = mySymbol(u) ]_vars

\* C13 (as claimed). handleClick(index) issues no write whenever, in the
\* persisted room at the time of the call, the cell is occupied, or status is not
\* 'in_progress', or the turn is not the caller's.
C13_IllegalClickNoOp ==
  [][ \A u \in Users, index \in Cells :
        LET row == game_rooms[activeGame[u].id]
        IN ( /\ HandleClick(u, index)
             /\ \/ PersistedBoard(row)[index] # Null
                \/ row.status # "in_progress"
                \/ PersistedTurn(row) # mySymbol(u) )
           => /\ game_rooms' = game_rooms
              /\ inbox' = inbox
              /\ moves' = moves ]_vars

\* The 3 rows, 3 columns and 2 diagonals of the board, as sets of cells.
BoardLines ==
  {{3 * r + j : j \in 0..2} : r \in 0..2}
    \cup {{3 * j + c : j \in 0..2} : c \in 0..2}
    \cup {{4 * j : j \in 0..2}, {2 * j + 2 : j \in 0..2}}

\* C14. An accepted move that fills one of the 8 lines with the mover's symbol
\* writes, together with the board, status 'completed' and winner_id = player1
\* when the symbol is X, player2 when it is O.
C14_WinDetected ==
  [][ \A u \in Users, index \in Cells :
        (moves' # moves /\ ~ClickRejected(u, index) /\ HandleClick(u, index))
        => LET old == game_rooms[activeGame[u].id]
               new == game_rooms'[activeGame[u].id]
           IN \A line \in BoardLines : \A symbol \in {"X", "O"} :
                ( /\ index \in line
                  /\ \A c \in line : PersistedBoard(new)[c] = symbol )
                => /\ new.status = "completed"
                   /\ new.winner_id = IF symbol = "X" THEN old.player1_id
                                       ELSE old.player2_id
                   /\ new.winner_id # Null ]_vars

\* C14 witness: player2 has completed the diagonal 2-4-6 with O and the room is
\* completed with player2 as winner.
C14_Witness ==
  /\ \A c \in {2, 4, 6} : PersistedBoard(game_rooms[1])[c] = "O"
  /\ game_rooms[1].status = "completed"
  /\ game_rooms[1].winner_id = "B"
  /\ game_rooms[1].player2_id = "B"

\* C15 (as claimed). An accepted move after which the persisted board is full
\* with no complete line leaves the room 'completed' with winner_id null; an
\* accepted move after which no line is complete and a cell is empty leaves the
\* room 'in_progress' with winner_id null.
C15_DrawAndContinuation ==
  [][ \A u \in Users, index \in Cells :
        (moves' # moves /\ ~ClickRejected(u, index) /\ HandleClick(u, index))
        => LET new == game_rooms'[activeGame[u].id]
               noLine == \A line \in BoardLines :
                           \E c, d \in line : PersistedBoard(new)[c] # PersistedBoard(new)[d]
                                              \/ PersistedBoard(new)[c] = Null
               full == \A c \in Cells : PersistedBoard(new)[c] # Null
           IN /\ (noLine /\ full) => (new.status = "completed" /\ new.winner_id = Null)
              /\ (noLine /\ ~full) => (new.status = "in_progress" /\ new.winner_id = Null) ]_vars

\* rock beats scissors, scissors beats paper, paper beats rock.
Beats(a, b) ==
  <<a, b>> \in {<<"rock", "scissors">>, <<"scissors", "paper">>, <<"paper", "rock">>}

\* C16 (as claimed). Once both choices of a Rock-Paper-Scissors room are
\* persisted, the room is 'completed' and winner_id is null for equal choices and
\* otherwise the id of the player whose choice beats the other's.
C16_RpsOutcome ==
  \A id \in DOMAIN game_rooms :
    LET row == game_rooms[id]
        p1 == row.game_state.player1Choice
        p2 == row.game_state.player2Choice
    IN (row.game_type = "rock_paper_scissors" /\ p1 # Null /\ p2 # Null)
       => /\ row.status = "completed"
          /\ row.winner_id = IF p1 = p2 THEN Null
                             ELSE IF Beats(p1, p2) THEN row.player1_id
                             ELSE row.player2_id

\* C17 (as claimed). Once both players of a Rock-Paper-Scissors room have made
\* their choice, in whatever order the writes and the notifications went, the
\* persisted game_state holds both choices and the room is 'completed'.
C17_RpsSimultaneous ==
  \A id \in DOMAIN game_rooms :
    LET row == game_rooms[id]
    IN ( /\ row.game_type = "rock_paper_scissors"
         /\ row.player2_id # Null
         /\ activeGame[row.player1_id].id = id /\ myChoice[row.player1_id] # Null
         /\ activeGame[row.player2_id].id = id /\ myChoice[row.player2_id] # Null )
       => /\ row.game_state.player1Choice = myChoice[row.player1_id]
          /\ row.game_state.player2Choice = myChoice[row.player2_id]
          /\ row.status = "completed"
          /\ (myChoice[row.player1_id] = myChoice[row.player2_id] => row.winner_id = Null)

\* C18. makeChoice by a player who has already chosen in the room issues no
\* write, and no step replaces a filled choice slot of a room by a different
\* choice.
C18_SecondChoiceRejected ==
  [][ /\ \A u \in Users, choice \in choices :
           (myChoice[u] # Null /\ MakeChoice(u, choice))
           => /\ game_rooms' = game_rooms
              /\ inbox' = inbox
              /\ moves' = moves
              /\ myChoice'[u] = myChoice[u]
      /\ \A id \in DOMAIN game_rooms :
           LET old == game_rooms[id].game_state
               new == game_rooms'[id].game_state
           IN /\ (old.player1Choice # Null /\ new.player1Choice # Null)
                   => new.player1Choice = old.player1Choice
              /\ (old.player2Choice # Null /\ new.player2Choice # Null)
                   => new.player2Choice = old.player2Choice ]_vars

\* C18 witness: a player whose choice is persisted still has the component
\* mounted with no result shown, and the other player has written after them.
C18_Witness ==
  \E u \in Users :
    /\ ControlsShown(u, "rock_paper_scissors")
    /\ myChoice[u] # Null
    /\ result[u] = Null
    /\ moves >= 2
    /\ LET gs == game_rooms[activeGame[u].id].game_state
       IN IF isPlayer1(u) THEN gs.player1Choice = myChoice[u] /\ gs.player2Choice # Null
          ELSE gs.player2Choice = myChoice[u] /\ gs.player1Choice # Null

\* games_played and games_won of a user, zero when the user has no row.
GamesPlayed(table, uid) == SelectStats(table, uid).games_played
GamesWon(table, uid) == SelectStats(table, uid).games_won

\* C19 (as claimed). When a participant's component handles the notification
\* that shows its room completed for the first time, that user's games_played
\* grows by exactly 1 and games_won by 1 if the user is the winner and by 0
\* otherwise; no other user's counters change.
C19_StatsCountCompletion ==
  [][ \A u \in Users :
        ( /\ Mounted(u)
          /\ inbox[u] # << >>
          /\ Head(inbox[u]).status = "completed"
          /\ gameState[u].status # "completed"
          /\ OnUpdate(u) )
        => /\ GamesPlayed(user_activity_stats', u) = GamesPlayed(user_activity_stats, u) + 1
           /\ GamesWon(user_activity_stats', u) =
                GamesWon(user_activity_stats, u)
                  + (IF Head(inbox[u]).winner_id = u THEN 1 ELSE 0)
           /\ \A v \in Users \ {u} :
                /\ GamesPlayed(user_activity_stats', v) = GamesPlayed(user_activity_stats, v)
                /\ GamesWon(user_activity_stats', v) = GamesWon(user_activity_stats, v) ]_vars

\* C20 (as claimed). When a component that has already handled a notification
\* of its completed room handles another one, the user's games_played grows by
\* 1 again, and games_won by 1 again if the user is the winner.
C20_StatsCountedAgain ==
  [][ \A u \in Users :
        ( /\ Mounted(u)
          /\ inbox[u] # << >>
          /\ Head(inbox[u]).status = "completed"
          /\ gameState[u].status = "completed"
          /\ OnUpdate(u) )
        => /\ GamesPlayed(user_activity_stats', u) = GamesPlayed(user_activity_stats, u) + 1
           /\ GamesWon(user_activity_stats', u) =
                GamesWon(user_activity_stats, u)
                  + (IF Head(inbox[u]).winner_id = u THEN 1 ELSE 0) ]_vars

\* C22. The identity fields of a room are write-once: no step changes a row's
\* game_type or player1_id, and a player2_id that is set is never cleared or
\* replaced; rows are never removed.
C22_IdentityWriteOnce ==
  [][ /\ Len(game_rooms') >= Len(game_rooms)
      /\ \A id \in DOMAIN game_rooms :
           /\ game_rooms'[id].game_type = game_rooms[id].game_type
           /\ game_rooms'[id].player1_id = game_rooms[id].player1_id
           /\ game_rooms[id].player2_id # Null
                => game_rooms'[id].player2_id = game_rooms[id].player2_id ]_vars

\* A third user's join attempt on the claimed room has failed, two moves have
\* been written, and the room still names its two players.
C22_Witness ==
  /\ [user |-> "C", room |-> 1, outcome |-> "error"] \in joinLog
  /\ moves >= 2
  /\ game_rooms[1].player1_id = "A"
  /\ game_rooms[1].player2_id = "B"
  /\ game_rooms[1].game_state # EmptyGameState

\* C24 (as claimed). The persisted Tic-Tac-Toe outcome follows from the
\* persisted board alone: a Tic-Tac-Toe row that has left 'waiting' is
\* 'completed' exactly when checkWinner of its board is non-null or its nine
\* cells are filled, and its winner_id is player1 when checkWinner gives X,
\* player2 when it gives O and null when it gives null.
C24_OutcomeFromBoard ==
  \A id \in DOMAIN game_rooms :
    LET row == game_rooms[id]
        b == PersistedBoard(row)
        w == checkWinner(b)
    IN (row.game_type = "tic_tac_toe" /\ row.status # "waiting") =>
         /\ (row.status = "completed") <=> (w # Null \/ \A c \in Cells : b[c] # Null)
         /\ row.winner_id = (IF w = "X" THEN row.player1_id
                             ELSE IF w = "O" THEN row.player2_id ELSE Null)

\* The choice slot of the player that is not u, in a row.
OpponentSlot(u, row) ==
  IF u = row.player1_id THEN row.game_state.player2Choice
  ELSE row.game_state.player1Choice

OwnSlot(u, row) ==
  IF u = row.player1_id THEN row.game_state.player1Choice
  ELSE row.game_state.player2Choice

\* C26 (as claimed). Every makeChoice that writes: made while the opponent's
\* persisted slot is empty, it sets the caller's slot and leaves the opponent's
\* slot empty, the status 'in_progress' and the winner null; made while the
\* opponent's persisted slot is filled, it sets the caller's slot, keeps the
\* opponent's and sets the status 'completed' in the same write.
C26_RpsWriteShape ==
  [][ \A u \in Users : \A choice \in choices :
        ( /\ moves' # moves
          /\ myChoice[u] = Null
          /\ MakeChoice(u, choice) )
        => LET old == game_rooms[activeGame[u].id]
               new == game_rooms'[activeGame[u].id]
           IN /\ OwnSlot(u, new) = choice
              /\ OpponentSlot(u, new) = OpponentSlot(u, old)
              /\ IF OpponentSlot(u, old) = Null
                 THEN new.status = "in_progress" /\ new.winner_id = Null
                 ELSE new.status = "completed" ]_vars

\* C28 (as claimed). In a Rock-Paper-Scissors room persisted as 'completed'
\* with both choices, the result a player's component shows agrees with the
\* persisted winner_id: 'win' exactly for the user stored in winner_id, 'draw'
\* exactly when winner_id is null; the two players never both show 'win' or
\* both show 'lose'.
C28_RpsResultMatchesWinner ==
  \A id \in DOMAIN game_rooms :
    LET row == game_rooms[id]
        shown == {u \in Subscribers(id) : result[u] # Null}
    IN ( /\ row.game_type = "rock_paper_scissors"
         /\ row.status = "completed"
         /\ row.game_state.player1Choice # Null
         /\ row.game_state.player2Choice # Null )
       => /\ \A u \in shown :
               /\ (result[u] = "win") <=> (row.winner_id = u)
               /\ (result[u] = "draw") <=> (row.winner_id = Null)
          /\ \A u, v \in shown :
               (u # v /\ result[u] = result[v]) => result[u] = "draw"

\* C29. The persisted Tic-Tac-Toe state is turn-consistent: a persisted board
\* has as many X marks as O marks when currentTurn is X, and one more X mark
\* than O marks when currentTurn is O.
C29_TurnConsistent ==
  \A id \in DOMAIN game_rooms :
    LET gs == game_rooms[id].game_state
    IN gs.board # NoBoard =>
         /\ gs.currentTurn \in {"X", "O"}
         /\ gs.currentTurn = "X" => Marks(gs.board, "X") = Marks(gs.board, "O")
         /\ gs.currentTurn = "O" => Marks(gs.board, "X") = Marks(gs.board, "O") + 1

\* Moves have been written and one of them has been lost: the persisted board
\* holds fewer marks than the moves written.
C29_Witness ==
  /\ game_rooms[1].game_type = "tic_tac_toe"
  /\ game_rooms[1].game_state.board # NoBoard
  /\ moves >= 3
  /\ Marks(game_rooms[1].game_state.board, "X")
       + Marks(game_rooms[1].game_state.board, "O") < moves
  /\ Marks(game_rooms[1].game_state.board, "O") >= 1

\* The winning lines that are complete on a board.
CompleteLines(b) == {k \in DOMAIN lines : LineWon(b, lines[k])}

\* C25 (as claimed). An accepted move completes at most one of the eight
\* winning lines.
C25_AtMostOneLinePerMove ==
  [][ \A u \in Users : \A index \in Cells :
        ( /\ moves' # moves
          /\ ~ClickRejected(u, index)
          /\ HandleClick(u, index) )
        => LET nb == PersistedBoard(game_rooms'[activeGame[u].id])
           IN Cardinality(CompleteLines(nb) \ CompleteLines(board[u])) <= 1 ]_vars

\* C25 (amended). Every line that is complete on the board an accepted move
\* writes passes through the cell played and holds the mover's symbol, and
\* there are at most two of them; so checkWinner returns that symbol whichever
\* complete line it meets first.
C25_WinnerOrderIndependent ==
  [][ \A u \in Users : \A index \in Cells :
        ( /\ moves' # moves
          /\ ~ClickRejected(u, index)
          /\ HandleClick(u, index) )
        => LET nb == PersistedBoard(game_rooms'[activeGame[u].id])
           IN /\ Cardinality(CompleteLines(nb)) <= 2
              /\ \A k \in CompleteLines(nb) :
                   /\ \E j \in 1..3 : lines[k][j] = index
                   /\ nb[lines[k][1]] = currentTurn[u]
                   /\ nb[lines[k][1]] = checkWinner(nb) ]_vars

\* A move has completed two lines at once and the room is completed.
C25_Witness ==
  /\ moves > MaxMoves - BoardMoves
  /\ Cardinality(CompleteLines(PersistedBoard(game_rooms[1]))) = 2
  /\ game_rooms[1].status = "completed"
  /\ game_rooms[1].winner_id # Null

\* A subscribed component that has handled every notification published to it
\* shows the persisted room.
Converged(u) ==
  LET row == game_rooms[activeGame[u].id]
  IN /\ gameState[u] = row
     /\ selectedGameType[u] = "tic_tac_toe" =>
          /\ board[u] = PersistedBoard(row)
          /\ currentTurn[u] = PersistedTurn(row)

\* C27. Convergence of clients: a subscribed component with no notification
\* pending holds the persisted room (the row with its game state and status,
\* and for Tic-Tac-Toe the board and the current turn); and handling a
\* notification, the client's own write included, writes nothing to game_rooms.
C27_ClientsConverge ==
  /\ [](\A u \in Users : (Mounted(u) /\ inbox[u] = << >>) => Converged(u))
  /\ [][ \A u \in Users : OnUpdate(u) => game_rooms' = game_rooms ]_vars

\* Moves have been written, one of them lost, and both players have handled
\* every notification, their own writes' included.
C27_Witness ==
  /\ moves >= 3
  /\ game_rooms[1].game_state.board # NoBoard
  /\ Marks(game_rooms[1].game_state.board, "X")
       + Marks(game_rooms[1].game_state.board, "O") < moves
  /\ \A u \in {"A", "B"} : Mounted(u) /\ inbox[u] = << >> /\ Converged(u)

\* Is the persisted status of an event what its persisted participants make it?
StatusMatchesTeams(table, rows, eventId) ==
  table[eventId].status =
    (IF /\ TeamCount(rows, eventId, "team_a") >= table[eventId].team_a_size
        /\ TeamCount(rows, eventId, "team_b") >= table[eventId].team_b_size
     THEN "full" ELSE "open")

\* C23 (as claimed). After every joinTeam or leaveEvent that changed the
\* participants table, its updateEventStatus step included, the event's
\* persisted status is 'full' if and only if both teams have at least their
\* size in persisted participants, and 'open' otherwise.
C23_StatusFollowsTeams ==
  [][ \A u \in Users : \A eventId \in DOMAIN sports_events :
        ( /\ sports_event_participants' # sports_event_participants
          /\ \/ \E team \in Teams : JoinTeam(u, eventId, team)
             \/ LeaveEvent(u, eventId) )
        => StatusMatchesTeams(sports_events', sports_event_participants', eventId) ]_vars

\* C30. For every user, games_won <= games_played in user_activity_stats, under
\* any interleaving of the selects and upserts of the updateStats calls.
C30_WonAtMostPlayed ==
  \A k \in DOMAIN user_activity_stats :
    /\ user_activity_stats[k].games_won <= user_activity_stats[k].games_played
    /\ user_activity_stats[k].games_won >= 0

\* Two updateStats calls of a user without a row have both run their select
\* before either upsert, a first upsert has inserted the row of a won game, and
\* the other call's upsert is still to come.
C30_Witness ==
  \E u \in Users :
    /\ GamesPlayed(user_activity_stats, u) = 1
    /\ GamesWon(user_activity_stats, u) = 1
    /\ \E i \in DOMAIN statsCalls[u] :
         /\ statsCalls[u][i].phase = "upsert"
         /\ statsCalls[u][i].row.games_played = 1

\* Is u neither player1 nor player2 of the persisted room its component holds?
NonParticipant(u) ==
  /\ Mounted(u)
  /\ u # game_rooms[activeGame[u].id].player1_id
  /\ u # game_rooms[activeGame[u].id].player2_id

\* C21. A handleClick or makeChoice call of a user who is neither player1 nor
\* player2 of the room leaves the persisted room as it is (game_state, status
\* and winner_id included) and notifies nobody.
C21_NonParticipantIgnored ==
  [][ \A u \in Users :
        ( /\ NonParticipant(u)
          /\ \/ \E index \in ClickCells : HandleClick(u, index)
             \/ \E choice \in choices : MakeChoice(u, choice) )
        => /\ game_rooms' = game_rooms
           /\ inbox' = inbox ]_vars

\* C's component has issued a choice (it holds it as myChoice) and the players'
\* game has completed on their own two choices.
C21_Witness ==
  /\ NonParticipant("C")
  /\ myChoice["C"] # Null
  /\ game_rooms[1].status = "completed"
  /\ game_rooms[1].game_state.player1Choice = myChoice["A"]
  /\ game_rooms[1].game_state.player2Choice = myChoice["B"]
  /\ myChoice["B"] # myChoice["C"]

====
